---- MODULE Spec2Model ----
(***************************************************************************)
(* Burn-after-reading secret store: the Store contract and its two         *)
(* backends, MemoryStore (a map of *Secret behind a sync.RWMutex, with a   *)
(* periodic sweeper) and RedisStore (gob blobs under per-key TTL, with a   *)
(* WATCH / MULTI / EXEC retry loop in IncrementViews).                      *)
(*                                                                         *)
(* Time is counted in quarter seconds: the Redis TTL command answers in    *)
(* whole seconds, rounded, and the rounding is visible only below a        *)
(* second.                                                                 *)
(***************************************************************************)
EXTENDS Integers, Sequences, FiniteSets, TLC

\* ------------------------------------------------------------- bounds
\* the clock stops at MaxTime
MaxTime == 2
\* Secret objects constructed and passed to Save
MaxSaves == 2
\* largest view budget a saved secret carries
MaxN == 2
IdOrder == <<"a", "b">>
Ids == {IdOrder[k] : k \in 1..Len(IdOrder)}
Clients == {"c1", "c2"}
\* the callers that read through the pointer a Get returned (GetStatus,
\* RevealSecret); the others drop it
Keepers == {"c1"}
Datas == {"test"}
Passphrases == {"pw"}
CreatedAts == {0}

NoAddr == 0
None == "none"

\* the addresses of the Secret objects alive at one time: per id, the one
\* the map holds and the ones the keepers still point at
Slots == 1 + Cardinality(Keepers)
Addrs == 1..(Cardinality(Ids) * Slots)
IdIndex(i) == (CHOOSE k \in 1..Len(IdOrder) : IdOrder[k] = i) - 1
AddrsOf(i) == (IdIndex(i) * Slots + 1)..((IdIndex(i) + 1) * Slots)

\* time.Time: the wall instant, and whether the value carries a monotonic
\* clock reading (time.Now() does, a decoded value does not)
Time(w, m) == [wall |-> w, mono |-> m]

\* t.After(u)
After(t, u) == t.wall > u.wall

\* models.Secret
Secret(i, d, mv, cv, ea, ca, p) ==
    [id |-> i, data |-> d, maxViews |-> mv, currentViews |-> cv,
     expiresAt |-> ea, createdAt |-> ca, passphrase |-> p]

VARIABLES
    backend,    \* which Store main.initStore built: "memory" or "redis"
    now,        \* the clock
    heap,       \* the Secret objects: address -> object, Freed when none
    secrets,    \* MemoryStore.secrets: id -> address, NoAddr when absent
    released,   \* MemoryStore.secrets is nil (after Close)
    mu,         \* MemoryStore.mu: who holds the write lock
    cancelled,  \* the sweeper's context is cancelled
    spc,        \* the sweeper goroutine: "wait" or "stopped"
    pc,         \* each caller's position
    arg,        \* each caller's argument: the id
    loc,        \* each caller's local pointer (an address)
    held,       \* the pointer a successful Get returned, until the caller has
                \* read through it, with the currentViews it pointed at then
    last,       \* the call that returned in the last step, NoRet otherwise
    nSaved,     \* Secret objects passed to Save so far
    succ,       \* per id: the counts successful IncrementViews returned since Save
    budget,     \* per id: maxViews of the secret last saved, 0 before any Save
    kv,         \* the Redis keyspace: id -> the blob and its expiry, or NoKey
    watch,      \* each connection's WATCH: "no", "clean" or "dirty"
    tries,      \* IncrementViews' loop variable i
    rloc,       \* the decoded secret and the ttl a Redis call works on
    web,        \* the HTTP handlers: per request goroutine the passphrase
                \* asked with and what its IncrementViews returned, and per
                \* id the 200 answers sent so far
    gen         \* per id: "never" saved, "fresh" (saved once, with no view
                \* used, and never removed by Delete, Close or an expiry
                \* detection), or "disturbed"

memVars == <<heap, secrets, released, mu, cancelled, spc>>
redisVars == <<kv, watch, tries, rloc>>
callVars == <<pc, arg, loc, held>>
histVars == <<nSaved, succ, budget, gen>>
vars == <<backend, now, memVars, redisVars, callVars, last, histVars, web>>

Now == Time(now, TRUE)

\* the budget of the id's last Save was used up by successful IncrementViews
Burned(i) == succ[i] # <<>> /\ succ[i][Len(succ[i])] >= budget[i]

NoRet == [op |-> None]

\* what a returning call leaves in `last`: the outcome, and the facts the
\* call met when it decided
NoRec == [id |-> None]
Ret(o, i, k, v, f) ==
    [op |-> o, id |-> i, kind |-> k, val |-> v, t |-> now,
     found |-> f.found, cv |-> f.cv, max |-> f.max, exp |-> f.exp,
     burned |-> Burned(i), rec |-> NoRec]

\* ... with the secret the call was given (Save) or handed back (Get)
RetRec(r, s) == [r EXCEPT !.rec = s]

NoFacts == [found |-> FALSE, cv |-> 0, max |-> 0, exp |-> 0]
Facts(s) == [found |-> TRUE, cv |-> s.currentViews, max |-> s.maxViews,
             exp |-> s.expiresAt.wall]

\* the id's history after a Save of s, and after a removal that is not
\* the budget's
Resaved(g, s) == IF g = "never" /\ s.currentViews = 0 THEN "fresh" ELSE "disturbed"
Disturb(g) == IF g = "never" THEN g ELSE "disturbed"

\* ---------------------------------------------------------- MemoryStore

\* an object no pointer reaches is the garbage collector's
Freed == [id |-> None]
NoPtr == [addr |-> NoAddr, cv |-> 0]
Reach(sec, lc, hd) ==
    {sec[i] : i \in Ids} \cup {lc[c] : c \in Clients}
        \cup {hd[c].addr : c \in Clients}
Collect(h, sec, lc, hd) ==
    [a \in Addrs |-> IF a \in Reach(sec, lc, hd) THEN h[a] ELSE Freed]
\* an address for a new object of the id: unused, or used only by the
\* object the map is about to let go
FreeFor(i, a) == heap[a] = Freed \/ (secrets[i] = a /\ \A c \in Clients : held[c].addr # a)
NewAddr(i) == CHOOSE a \in AddrsOf(i) :
                 FreeFor(i, a) /\ \A b \in AddrsOf(i) : b < a => ~FreeFor(i, b)

\* s.mu.Lock() returns once no one holds the lock
LockFreeNoMutex == TRUE
LockFree == mu = None

\* secret.CurrentViews >= secret.MaxViews
Exhausted(s) == s.currentViews >= s.maxViews

\* time.Now().After(secret.ExpiresAt)
Expired(s) == After(Now, s.expiresAt)

Stored(i) == secrets[i] # NoAddr
At(i) == heap[secrets[i]]
FactsOf(i) == IF Stored(i) THEN Facts(At(i)) ELSE NoFacts

\* the secrets a caller may construct at this instant. Under the main id
\* the budget is any and unused, or of one view and used up, and the
\* deadline is already past
\* or ahead: one tick ahead for MemoryStore; this instant or two ticks
\* ahead for RedisStore, where the server's TTL answer then rounds up at
\* once and down a tick later. The
\* other ids are bystanders, with one unused view and the deadline ahead
MainId == "a"
Deadlines == IF backend = "memory" THEN {now - 1, now + 1}
             ELSE {now - 1, now, now + 2}
\* the Redis model follows one key: the server keeps keys apart
Keys == {MainId}
Bystanders == IF backend = "memory" THEN Ids \ {MainId} ELSE {}
NewSecrets ==
    UNION { { Secret(MainId, d, mv, cv, Time(e, TRUE), Time(ca, TRUE), p) :
                d \in Datas, cv \in IF mv = 1 THEN {0, mv} ELSE {0}, e \in Deadlines,
                ca \in CreatedAts, p \in Passphrases } : mv \in 1..MaxN }
    \cup
    { Secret(i, d, 1, 0, Time(now + 1, TRUE), Time(ca, TRUE), p) :
        i \in Bystanders, d \in Datas, ca \in CreatedAts, p \in Passphrases }

\* what Save answers for the secret: it stores it, whatever its deadline
SaveRejects(s) == FALSE

\* Save, under s.mu.Lock(): s.secrets[secret.ID] = secret, the caller's
\* pointer (an assignment into a nil map panics)
MSave(c) ==
    /\ backend = "memory" /\ pc[c] = "idle"
    /\ nSaved < MaxSaves
    /\ LockFree
    /\ \E s \in NewSecrets :
        LET i == s.id
            a == NewAddr(i)
        IN  IF released
            THEN /\ last' = Ret("save", i, "panic", 0, Facts(s))
                 /\ UNCHANGED <<heap, secrets, succ, budget, gen>>
            ELSE IF SaveRejects(s)
            THEN /\ last' = Ret("save", i, "Expired", 0, Facts(s))
                 /\ UNCHANGED <<heap, secrets, succ, budget, gen>>
            ELSE /\ secrets' = [secrets EXCEPT ![i] = a]
                 /\ heap' = Collect([heap EXCEPT ![a] = s], secrets', loc, held)
                 /\ last' = RetRec(Ret("save", i, "ok", 0, Facts(s)), s)
                 /\ succ' = [succ EXCEPT ![i] = <<>>]
                 /\ budget' = [budget EXCEPT ![i] = s.maxViews]
                 /\ gen' = [gen EXCEPT ![i] = Resaved(@, s)]
    /\ nSaved' = nSaved + 1
    /\ UNCHANGED <<backend, web, now, redisVars, released, mu, cancelled, spc, callVars>>

\* the outcome of Get's checks, in the code's order
GetOutcome(i) ==
    IF ~Stored(i) THEN "NotFound"
    ELSE IF Expired(At(i)) THEN "Expired"
    ELSE IF Exhausted(At(i)) THEN "MaxViews"
    ELSE "ok"

\* the map as Get leaves it: it only reads
GetLeavesLazy(i) ==
    IF GetOutcome(i) \in {"Expired", "MaxViews"}
    THEN [secrets EXCEPT ![i] = NoAddr] ELSE secrets
GetLeaves(i) == secrets

\* return secret, nil: the pointer the map holds, not a copy
GetResult(i) == [addr |-> secrets[i], cv |-> At(i).currentViews]

\* Get, under s.mu.RLock(); the caller keeps the pointer or drops it
MGet(c) ==
    /\ backend = "memory" /\ pc[c] = "idle"
    /\ LockFree
    /\ \E i \in Ids, keep \in BOOLEAN :
        LET k == GetOutcome(i)
            kept == keep /\ k = "ok"
        IN  /\ keep => c \in Keepers
            /\ held' = [held EXCEPT ![c] = IF kept THEN GetResult(i) ELSE NoPtr]
            /\ last' = RetRec(Ret("get", i, k,
                                  IF k = "ok" THEN At(i).currentViews ELSE 0,
                                  FactsOf(i)),
                              IF k = "ok" THEN At(i) ELSE NoRec)
            /\ secrets' = GetLeaves(i)
            /\ pc' = [pc EXCEPT ![c] = IF kept THEN "got" ELSE "idle"]
            /\ arg' = [arg EXCEPT ![c] = IF kept THEN i ELSE None]
    /\ heap' = Collect(heap, secrets', loc, held')
    /\ UNCHANGED <<backend, web, now, redisVars, released, mu, cancelled, spc, loc, histVars>>

\* the caller reads through the pointer Get returned, outside the lock
\* (GetStatus: secret.MaxViews - secret.CurrentViews)
Use(c) ==
    /\ backend = "memory" /\ pc[c] = "got"
    /\ LET s == heap[held[c].addr]
       IN  last' = Ret("use", arg[c], "ok", s.currentViews,
                       [Facts(s) EXCEPT !.cv = held[c].cv])
    /\ held' = [held EXCEPT ![c] = NoPtr]
    /\ pc' = [pc EXCEPT ![c] = "idle"]
    /\ arg' = [arg EXCEPT ![c] = None]
    /\ heap' = Collect(heap, secrets, loc, held')
    /\ UNCHANGED <<backend, web, now, redisVars, secrets, released, mu, cancelled, spc, loc, histVars>>

\* delete(s.secrets, id)
WithoutAny(i) == [j \in Ids |-> NoAddr]
Without(i) == [secrets EXCEPT ![i] = NoAddr]

\* Delete, under s.mu.Lock(): delete(s.secrets, id)
MDelete(c) ==
    /\ backend = "memory" /\ pc[c] = "idle"
    /\ LockFree
    /\ \E i \in Ids :
        /\ secrets' = Without(i)
        /\ last' = Ret("delete", i, "ok", 0, FactsOf(i))
        /\ gen' = [gen EXCEPT ![i] = IF Stored(i) THEN Disturb(@) ELSE @]
    /\ heap' = Collect(heap, secrets', loc, held)
    /\ UNCHANGED <<backend, web, now, redisVars, released, mu, cancelled, spc, callVars,
                   nSaved, succ, budget>>

\* IncrementViews: s.mu.Lock(), the lookup and the two checks; a failing
\* check deletes, unlocks and returns
MIncCheck(c) ==
    /\ backend = "memory" /\ pc[c] = "idle"
    /\ LockFree
    /\ \E i \in Ids :
        IF ~Stored(i)
        THEN /\ last' = Ret("inc", i, "NotFound", 0, NoFacts)
             /\ UNCHANGED <<secrets, mu, pc, arg, loc, gen>>
        ELSE IF Expired(At(i)) \/ Exhausted(At(i))
        THEN /\ last' = Ret("inc", i,
                            IF Expired(At(i)) THEN "Expired" ELSE "MaxViews",
                            0, Facts(At(i)))
             /\ secrets' = [secrets EXCEPT ![i] = NoAddr]
             /\ gen' = [gen EXCEPT ![i] = IF Expired(At(i)) THEN Disturb(@) ELSE @]
             /\ UNCHANGED <<mu, pc, arg, loc>>
        ELSE /\ mu' = c
             /\ loc' = [loc EXCEPT ![c] = secrets[i]]
             /\ arg' = [arg EXCEPT ![c] = i]
             /\ pc' = [pc EXCEPT ![c] = "incr"]
             /\ last' = NoRet
             /\ UNCHANGED <<secrets, gen>>
    /\ heap' = Collect(heap, secrets', loc', held)
    /\ UNCHANGED <<backend, web, now, redisVars, released, cancelled, spc, held, nSaved, succ, budget>>

\* secret.CurrentViews++
Decremented(s) == [s EXCEPT !.currentViews = @ - 1]
Incremented(s) == [s EXCEPT !.currentViews = @ + 1]

\* the auto-delete's test, after the increment
AutoDeleteNever(s) == FALSE
AutoDelete(s) == s.currentViews >= s.maxViews

\* defer s.mu.Unlock(): the lock as the returning call leaves it
UnlockSkipped(c) == c
Unlock(c) == None

\* secret.CurrentViews++; the auto-delete; return secret.CurrentViews, nil;
\* the deferred Unlock
MIncr(c) ==
    /\ backend = "memory" /\ pc[c] = "incr"
    /\ LET i == arg[c]
           a == loc[c]
           s == Incremented(heap[a])
       IN  /\ secrets' = IF AutoDelete(s) THEN [secrets EXCEPT ![i] = NoAddr]
                         ELSE secrets
           /\ last' = Ret("inc", i, "ok", s.currentViews, Facts(heap[a]))
           /\ succ' = [succ EXCEPT ![i] = Append(@, s.currentViews)]
           /\ loc' = [loc EXCEPT ![c] = NoAddr]
           /\ heap' = Collect([heap EXCEPT ![a] = s], secrets', loc', held)
    /\ mu' = Unlock(c)
    /\ pc' = [pc EXCEPT ![c] = "idle"]
    /\ arg' = [arg EXCEPT ![c] = None]
    /\ UNCHANGED <<backend, web, now, redisVars, released, cancelled, spc, held, nSaved, budget, gen>>

\* cleanup's test of one record
ReclaimableSpent(s) == Exhausted(s)
Reclaimable(s) == Expired(s) \/ Exhausted(s)

\* the sweeps in a row since Close released the map, this one included
\* (counted up to MaxLate)
MaxLate == 2
Late == IF ~released THEN 0
        ELSE IF last.op = "cleanup" /\ last.late < MaxLate THEN last.late + 1
        ELSE IF last.op = "cleanup" THEN MaxLate
        ELSE 1

\* cleanupLoop: the ticker fires, and cleanup, under s.mu.Lock(), deletes
\* what the test selects in one pass over the map; with the context
\* cancelled and the ticker ready, select may still pick the tick
Cleanup ==
    /\ backend = "memory" /\ spc = "wait"
    /\ LockFree
    /\ secrets' = [i \in Ids |->
                     IF Stored(i) /\ Reclaimable(At(i)) THEN NoAddr ELSE secrets[i]]
    /\ gen' = [i \in Ids |->
                 IF Stored(i) /\ Expired(At(i)) THEN Disturb(gen[i]) ELSE gen[i]]
    /\ last' = [op |-> "cleanup",
                swept |-> {i \in Ids : Stored(i) /\ Expired(At(i)) /\ secrets'[i] = NoAddr},
                late |-> Late]
    /\ heap' = Collect(heap, secrets', loc, held)
    /\ UNCHANGED <<backend, web, now, redisVars, released, mu, cancelled, spc, callVars,
                   nSaved, succ, budget>>

\* case <-ctx.Done(): return
SweeperStop ==
    /\ backend = "memory" /\ spc = "wait" /\ cancelled
    /\ spc' = "stopped"
    /\ last' = NoRet
    /\ UNCHANGED <<backend, web, now, redisVars, heap, secrets, released, mu, cancelled, callVars,
                   histVars>>

\* s.cleanupCancel(): ctx.Done() is closed, and stays closed
CancelLost == cancelled
Cancel == TRUE

\* Close: s.cleanupCancel()
MCloseCall(c) ==
    /\ backend = "memory" /\ pc[c] = "idle"
    /\ cancelled' = Cancel
    /\ pc' = [pc EXCEPT ![c] = "close"]
    /\ last' = NoRet
    /\ UNCHANGED <<backend, web, now, redisVars, heap, secrets, released, mu, spc, arg, loc, held,
                   histVars>>

\* Close, under s.mu.Lock(): s.secrets = nil
MClose(c) ==
    /\ backend = "memory" /\ pc[c] = "close"
    /\ LockFree
    /\ secrets' = [i \in Ids |-> NoAddr]
    /\ released' = TRUE
    /\ gen' = [i \in Ids |-> IF Stored(i) THEN Disturb(gen[i]) ELSE gen[i]]
    /\ last' = [op |-> "close", kind |-> "ok", again |-> released]
    /\ pc' = [pc EXCEPT ![c] = "idle"]
    /\ heap' = Collect(heap, secrets', loc, held)
    /\ UNCHANGED <<backend, web, now, redisVars, mu, cancelled, spc, arg, loc, held,
                   nSaved, succ, budget>>

\* ----------------------------------------------------------- RedisStore

\* for i := 0; i < 3; i++
MaxTries == 3

NoKey == [set |-> FALSE]
NoWork == [secret |-> Freed, ttl |-> 0]

\* encode, decode: the gob stream carries the fields' values; a time.Time
\* travels as its wall instant, without the monotonic clock reading
Encode(s) ==
    <<s.id, s.data, s.maxViews, s.currentViews, s.expiresAt.wall,
      s.createdAt.wall, s.passphrase>>
DecodeCrossed(b) ==
    Secret(b[1], b[2], b[3], b[4], Time(b[6], FALSE), Time(b[5], FALSE), b[7])
Decode(b) ==
    Secret(b[1], b[2], b[3], b[4], Time(b[5], FALSE), Time(b[6], FALSE), b[7])

\* the key exists: the clock's step removes a key whose expiry has passed
Live(i) == kv[i].set

\* client.Set(ctx, key, data, ttl): the key expires ttl from now; go-redis
\* sends no expiry for a ttl that is not positive
Entry(b, ttl) ==
    [set |-> TRUE, blob |-> b, persist |-> ttl <= 0,
     exp |-> IF ttl > 0 THEN now + ttl ELSE 0]

\* a write to the key marks the connections that WATCH it
Touch(i) ==
    [c \in Clients |->
        IF watch[c] = "clean" /\ arg[c] = i THEN "dirty" ELSE watch[c]]
Touched(i) == IF Live(i) THEN Touch(i) ELSE watch

\* tx.TTL(ctx, key).Val(): the server answers in whole seconds, rounded
\* from the milliseconds left, -2 for no key and -1 for no expiry
TTLSeconds(i) ==
    IF ~Live(i) THEN 0 - 2
    ELSE IF kv[i].persist THEN 0 - 1
    ELSE (kv[i].exp - now + 2) \div 4
TTL(i) == IF TTLSeconds(i) < 0 THEN TTLSeconds(i) ELSE 4 * TTLSeconds(i)

\* ttl := time.Until(secret.ExpiresAt); if ttl <= 0 { return ErrExpired }
SaveTtlRejectsBelow(ttl) == ttl < 0
SaveTtlRejects(ttl) == ttl <= 0

\* Save: encode, the ttl test, SET
RSave(c) ==
    /\ backend = "redis" /\ pc[c] = "idle"
    /\ nSaved < MaxSaves
    /\ \E s \in NewSecrets :
        LET i == s.id
            ttl == s.expiresAt.wall - now
        IN  IF SaveTtlRejects(ttl)
            THEN /\ last' = Ret("save", i, "Expired", 0, Facts(s))
                 /\ UNCHANGED <<kv, watch, succ, budget, gen>>
            ELSE /\ kv' = [kv EXCEPT ![i] = Entry(Encode(s), ttl)]
                 /\ watch' = Touch(i)
                 /\ last' = RetRec(Ret("save", i, "ok", 0, Facts(s)), s)
                 /\ succ' = [succ EXCEPT ![i] = <<>>]
                 /\ budget' = [budget EXCEPT ![i] = s.maxViews]
                 /\ gen' = [gen EXCEPT ![i] = Resaved(@, s)]
    /\ nSaved' = nSaved + 1
    /\ UNCHANGED <<backend, web, now, memVars, tries, rloc, callVars>>

\* Get: GET and decode; a used-up record goes on to r.Delete
RGet(c) ==
    /\ backend = "redis" /\ pc[c] = "idle"
    /\ \E i \in Keys :
        IF ~Live(i)
        THEN /\ last' = Ret("get", i, "NotFound", 0, NoFacts)
             /\ UNCHANGED <<pc, arg, rloc>>
        ELSE LET s == Decode(kv[i].blob)
             IN  IF Exhausted(s)
                 THEN /\ pc' = [pc EXCEPT ![c] = "getdel"]
                      /\ arg' = [arg EXCEPT ![c] = i]
                      /\ rloc' = [rloc EXCEPT ![c] = [secret |-> s, ttl |-> 0]]
                      /\ last' = NoRet
                 ELSE /\ last' = RetRec(Ret("get", i, "ok", s.currentViews,
                                            Facts(s)), s)
                      /\ UNCHANGED <<pc, arg, rloc>>
    /\ UNCHANGED <<backend, web, now, memVars, kv, watch, tries, loc, held, histVars>>

\* Get: _ = r.Delete(ctx, id); return nil, ErrMaxViews
RGetDel(c) ==
    /\ backend = "redis" /\ pc[c] = "getdel"
    /\ LET i == arg[c]
       IN  /\ kv' = [kv EXCEPT ![i] = NoKey]
           /\ watch' = Touched(i)
           /\ last' = Ret("get", i, "MaxViews", 0, Facts(rloc[c].secret))
    /\ pc' = [pc EXCEPT ![c] = "idle"]
    /\ arg' = [arg EXCEPT ![c] = None]
    /\ rloc' = [rloc EXCEPT ![c] = NoWork]
    /\ UNCHANGED <<backend, web, now, memVars, tries, loc, held, histVars>>

\* Delete: DEL
RDelete(c) ==
    /\ backend = "redis" /\ pc[c] = "idle"
    /\ \E i \in Keys :
        /\ kv' = [kv EXCEPT ![i] = NoKey]
        /\ watch' = Touched(i)
        /\ last' = Ret("delete", i, "ok", 0,
                       IF Live(i) THEN Facts(Decode(kv[i].blob)) ELSE NoFacts)
        /\ gen' = [gen EXCEPT ![i] = IF Live(i) THEN Disturb(@) ELSE @]
    /\ UNCHANGED <<backend, web, now, memVars, tries, rloc, callVars, nSaved, succ, budget>>

\* a call of IncrementViews returns: the connection goes back to the pool
Return(c) ==
    /\ pc' = [pc EXCEPT ![c] = "idle"]
    /\ arg' = [arg EXCEPT ![c] = None]
    /\ rloc' = [rloc EXCEPT ![c] = NoWork]
    /\ tries' = [tries EXCEPT ![c] = 0]

\* IncrementViews: i := 0; r.client.Watch sends WATCH key. The log of
\* the counts returned for an id is kept to the budget's length and the
\* calls under way
RIncWatch(c) ==
    /\ backend = "redis" /\ pc[c] = "idle"
    /\ \E i \in Keys :
        /\ Len(succ[i]) <= budget[i]
        /\ arg' = [arg EXCEPT ![c] = i]
    /\ watch' = [watch EXCEPT ![c] = "clean"]
    /\ pc' = [pc EXCEPT ![c] = "read"]
    /\ last' = NoRet
    /\ UNCHANGED <<backend, web, now, memVars, kv, tries, rloc, loc, held, histVars>>

\* txf: the script's GET; no key is ErrNotFound, which ends the call
RIncRead(c) ==
    /\ backend = "redis" /\ pc[c] = "read"
    /\ LET i == arg[c]
       IN  IF ~Live(i)
           THEN /\ last' = Ret("inc", i, "NotFound", 0, NoFacts)
                /\ watch' = [watch EXCEPT ![c] = "no"]
                /\ Return(c)
           ELSE /\ rloc' = [rloc EXCEPT ![c] =
                               [secret |-> Decode(kv[i].blob), ttl |-> 0]]
                /\ pc' = [pc EXCEPT ![c] = "check"]
                /\ last' = NoRet
                /\ UNCHANGED <<watch, arg, tries>>
    /\ UNCHANGED <<backend, web, now, memVars, kv, loc, held, histVars>>

\* txf: now := time.Now() and the two checks. A failing check ends Watch
\* with the error, and the loop answers it with r.Delete and returns;
\* otherwise tx.TTL
RIncCheck(c) ==
    /\ backend = "redis" /\ pc[c] = "check"
    /\ LET i == arg[c]
           s == rloc[c].secret
       IN  IF After(Now, s.expiresAt) \/ Exhausted(s)
           THEN /\ kv' = [kv EXCEPT ![i] = NoKey]
                /\ watch' = [Touched(i) EXCEPT ![c] = "no"]
                /\ last' = Ret("inc", i,
                               IF After(Now, s.expiresAt) THEN "Expired"
                               ELSE "MaxViews", 0, Facts(s))
                /\ Return(c)
           ELSE /\ rloc' = [rloc EXCEPT ![c].ttl = TTL(i)]
                /\ pc' = [pc EXCEPT ![c] = "exec"]
                /\ last' = NoRet
                /\ UNCHANGED <<kv, watch, arg, tries>>
    /\ UNCHANGED <<backend, web, now, memVars, loc, held, histVars>>

\* what TxPipelined queues for the incremented secret
Queued(s, ttl) ==
    IF s.currentViews >= s.maxViews THEN "del"
    ELSE IF ttl > 0 THEN "set"
    ELSE "none"

\* for i := 0; i < 3; i++: after attempt number n + 1 was rejected, the
\* loop goes round again
AgainOnceMore(n) == n < MaxTries
Again(n) == n + 1 < MaxTries

\* txf: secret.CurrentViews++ and tx.TxPipelined. An empty pipeline sends
\* nothing and is no error; MULTI .. EXEC fails with TxFailedErr when the
\* watched key was written, and the loop goes round while i < 3
RIncExec(c) ==
    /\ backend = "redis" /\ pc[c] = "exec"
    /\ LET i == arg[c]
           s == Incremented(rloc[c].secret)
           ttl == rloc[c].ttl
           q == Queued(s, ttl)
       IN  IF q # "none" /\ watch[c] = "dirty"
           THEN /\ IF Again(tries[c])
                   THEN /\ tries' = [tries EXCEPT ![c] = @ + 1]
                        /\ watch' = [watch EXCEPT ![c] = "clean"]
                        /\ pc' = [pc EXCEPT ![c] = "read"]
                        /\ rloc' = [rloc EXCEPT ![c] = NoWork]
                        /\ last' = NoRet
                        /\ UNCHANGED arg
                   ELSE /\ last' = Ret("inc", i, "TxFailed", 0,
                                       Facts(rloc[c].secret))
                        /\ watch' = [watch EXCEPT ![c] = "no"]
                        /\ Return(c)
                /\ UNCHANGED <<kv, succ>>
           ELSE /\ kv' = IF q = "del" THEN [kv EXCEPT ![i] = NoKey]
                         ELSE IF q = "set"
                         THEN [kv EXCEPT ![i] = Entry(Encode(s), ttl)]
                         ELSE kv
                /\ watch' = [(IF q = "del" THEN Touched(i)
                              ELSE IF q = "set" THEN Touch(i) ELSE watch)
                             EXCEPT ![c] = "no"]
                /\ last' = Ret("inc", i, "ok", s.currentViews,
                               Facts(rloc[c].secret))
                /\ succ' = [succ EXCEPT ![i] = Append(@, s.currentViews)]
                /\ Return(c)
    /\ UNCHANGED <<backend, web, now, memVars, loc, held, nSaved, budget, gen>>

\* the clock advances; Redis drops the keys whose expiry has passed, and
\* whether that marks the connections watching them is the server
\* version's choice
Passed(e, t) == e.set /\ ~e.persist /\ e.exp < t
Tick ==
    /\ now < MaxTime
    /\ now' = now + 1
    /\ kv' = [i \in Keys |-> IF Passed(kv[i], now') THEN NoKey ELSE kv[i]]
    /\ \E touch \in BOOLEAN :
        watch' = [c \in Clients |->
                    IF touch /\ watch[c] = "clean" /\ Passed(kv[arg[c]], now')
                    THEN "dirty" ELSE watch[c]]
    /\ last' = NoRet
    /\ UNCHANGED <<backend, web, memVars, tries, rloc, callVars, histVars>>

\* -------------------------------------------------------- HTTP handlers
\* internal/api/handlers.go over MemoryStore; each caller is the goroutine
\* of one request at a time

\* config.Secrets: default_views, and max_views; default_ttl and max_ttl on
\* the model's clock, a single tick both
DefaultViews == 1
ConfigMaxViews == MaxN
DefaultTTL == 1
MaxTTL == DefaultTTL
\* what a create request may ask for
ReqViews == 0..(MaxN + 1)
ReqTTLs == 0..(MaxTime + 1)
\* the passphrase a reveal request carries: none, the secret's, another
ReqPassphrases == {""} \cup Passphrases \cup {"bad"}

\* clamp, clampDuration
clamp(val, defaultVal, maxVal) ==
    IF val <= 0 THEN defaultVal ELSE IF val > maxVal THEN maxVal ELSE val

NoReq == [pass |-> None, count |-> 0, err |-> None]

\* h.json / h.error / handleStoreError: the status of the answer
Status(k) ==
    CASE k = "ok" -> 200
      [] k = "Created" -> 201
      [] k = "BadRequest" -> 400
      [] k = "Forbidden" -> 403
      [] k = "NotFound" -> 404
      [] k \in {"Expired", "MaxViews"} -> 410
      [] OTHER -> 500

\* an answer sent: where the handler stopped ("pre", "get", "inc" or
\* "sent"), the passphrase asked with, views_remaining
Answer(o, i, k, v, f, at, p, rem) ==
    Ret(o, i, k, v, f) @@ [status |-> Status(k), at |-> at, pass |-> p, remaining |-> rem]

\* CreateSecret: a fresh id and passphrase, the clamped budget and time to
\* live, CurrentViews 0, and h.store.Save
CreateSecret(c) ==
    /\ backend = "memory" /\ pc[c] = "idle"
    /\ LockFree
    /\ \E i \in Ids, rv \in ReqViews, rt \in ReqTTLs, d \in Datas, p \in Passphrases :
        LET mv == clamp(rv, DefaultViews, ConfigMaxViews)
            ttl == clamp(rt, DefaultTTL, MaxTTL)
            s == Secret(i, d, mv, 0, Time(now + ttl, TRUE), Now, p)
            a == NewAddr(i)
        IN  /\ gen[i] = "never"
            /\ secrets' = [secrets EXCEPT ![i] = a]
            /\ heap' = Collect([heap EXCEPT ![a] = s], secrets', loc, held)
            /\ last' = RetRec(Answer("create", i, "Created", 0, Facts(s), "sent", p, mv), s)
            /\ succ' = [succ EXCEPT ![i] = <<>>]
            /\ budget' = [budget EXCEPT ![i] = s.maxViews]
            /\ gen' = [gen EXCEPT ![i] = Resaved(@, s)]
    /\ nSaved' = nSaved + 1
    /\ UNCHANGED <<backend, web, now, redisVars, released, mu, cancelled, spc, callVars>>

\* passphrase != secret.Passphrase, read through the pointer Get returned
MatchesAny(p, s) == TRUE
Matches(p, s) == p = s.passphrase

\* RevealSecret up to its IncrementViews call: the passphrase must be
\* there, h.store.Get must return the secret, and the passphrase must be
\* the secret's
RevealGet(c) ==
    /\ backend = "memory" /\ pc[c] = "idle"
    /\ \E i \in Ids, p \in ReqPassphrases :
        LET k == GetOutcome(i)
            stop(kind, at) ==
                /\ last' = Answer("reveal", i, kind, 0, FactsOf(i), at, p, 0)
                /\ UNCHANGED <<held, pc, arg, web>>
        IN  IF p = "" THEN stop("BadRequest", "pre")
            ELSE /\ LockFree
                 /\ IF k # "ok" THEN stop(k, "get")
                    ELSE IF ~Matches(p, At(i)) THEN stop("Forbidden", "get")
                    ELSE /\ held' = [held EXCEPT ![c] = GetResult(i)]
                         /\ arg' = [arg EXCEPT ![c] = i]
                         /\ pc' = [pc EXCEPT ![c] = "reveal"]
                         /\ web' = [web EXCEPT !.req[c] = [NoReq EXCEPT !.pass = p]]
                         /\ last' = NoRet
    /\ heap' = Collect(heap, secrets, loc, held')
    /\ UNCHANGED <<backend, now, redisVars, secrets, released, mu, cancelled, spc, loc,
                   histVars>>

\* the outcome of IncrementViews' checks, in the code's order
IncOutcome(i) ==
    IF ~Stored(i) THEN "NotFound"
    ELSE IF Expired(At(i)) THEN "Expired"
    ELSE IF Exhausted(At(i)) THEN "MaxViews"
    ELSE "ok"

\* h.store.IncrementViews: s.mu.Lock(), the lookup and the two checks; a
\* failing check deletes, unlocks and returns 0 and the error
RevealIncCheck(c) ==
    /\ backend = "memory" /\ pc[c] = "reveal"
    /\ LockFree
    /\ LET i == arg[c]
           k == IncOutcome(i)
       IN  IF k # "ok"
           THEN /\ last' = Ret("inc", i, k, 0, FactsOf(i))
                /\ secrets' = IF k = "NotFound" THEN secrets ELSE Without(i)
                /\ gen' = [gen EXCEPT ![i] = IF k = "Expired" THEN Disturb(@) ELSE @]
                /\ web' = [web EXCEPT !.req[c].err = k]
                /\ pc' = [pc EXCEPT ![c] = "send"]
                /\ UNCHANGED <<mu, loc>>
           ELSE /\ mu' = c
                /\ loc' = [loc EXCEPT ![c] = secrets[i]]
                /\ pc' = [pc EXCEPT ![c] = "revealing"]
                /\ last' = NoRet
                /\ UNCHANGED <<secrets, gen, web>>
    /\ heap' = Collect(heap, secrets', loc', held)
    /\ UNCHANGED <<backend, now, redisVars, released, cancelled, spc, arg, held,
                   nSaved, succ, budget>>

\* secret.CurrentViews++; the auto-delete; return secret.CurrentViews, nil;
\* the deferred Unlock
RevealIncr(c) ==
    /\ backend = "memory" /\ pc[c] = "revealing"
    /\ LET i == arg[c]
           a == loc[c]
           s == Incremented(heap[a])
       IN  /\ secrets' = IF AutoDelete(s) THEN Without(i) ELSE secrets
           /\ last' = Ret("inc", i, "ok", s.currentViews, Facts(heap[a]))
           /\ succ' = [succ EXCEPT ![i] = Append(@, s.currentViews)]
           /\ web' = [web EXCEPT !.req[c].count = s.currentViews, !.req[c].err = "ok"]
           /\ loc' = [loc EXCEPT ![c] = NoAddr]
           /\ heap' = Collect([heap EXCEPT ![a] = s], secrets', loc', held)
    /\ mu' = Unlock(c)
    /\ pc' = [pc EXCEPT ![c] = "send"]
    /\ UNCHANGED <<backend, now, redisVars, released, cancelled, spc, arg, held,
                   nSaved, budget, gen>>

\* if err != nil { h.handleStoreError(w, err); return }
SendsAnyway(err) == TRUE
Sends(err) == err = "ok"

\* ViewsRemaining: secret.MaxViews - currentViews
Remaining(s, n) == s.maxViews - n

\* RevealSecret after its IncrementViews call: the store's error, or the
\* content (decrypted with the passphrase that matched) and the views left
RevealSend(c) ==
    /\ backend = "memory" /\ pc[c] = "send"
    /\ LET i == arg[c]
           r == web.req[c]
           s == heap[held[c].addr]
       IN  IF Sends(r.err)
           THEN /\ last' = Answer("reveal", i, "ok", r.count, FactsOf(i), "sent", r.pass,
                                  Remaining(s, r.count))
                /\ web' = [web EXCEPT !.req[c] = NoReq, !.served[i] = @ + 1]
           ELSE /\ last' = Answer("reveal", i, r.err, 0, FactsOf(i), "inc", r.pass, 0)
                /\ web' = [web EXCEPT !.req[c] = NoReq]
    /\ held' = [held EXCEPT ![c] = NoPtr]
    /\ pc' = [pc EXCEPT ![c] = "idle"]
    /\ arg' = [arg EXCEPT ![c] = None]
    /\ heap' = Collect(heap, secrets, loc, held')
    /\ UNCHANGED <<backend, now, redisVars, secrets, released, mu, cancelled, spc, loc,
                   histVars>>

Init ==
    /\ backend \in {"memory", "redis"}
    /\ now = 0
    /\ heap = [a \in Addrs |-> Freed]
    /\ secrets = [i \in Ids |-> NoAddr]
    /\ released = FALSE
    /\ mu = None
    /\ cancelled = FALSE
    /\ spc = "wait"
    /\ pc = [c \in Clients |-> "idle"]
    /\ arg = [c \in Clients |-> None]
    /\ loc = [c \in Clients |-> NoAddr]
    /\ held = [c \in Clients |-> NoPtr]
    /\ kv = [i \in Keys |-> NoKey]
    /\ watch = [c \in Clients |-> "no"]
    /\ tries = [c \in Clients |-> 0]
    /\ rloc = [c \in Clients |-> NoWork]
    /\ last = NoRet
    /\ nSaved = 0
    /\ succ = [i \in Ids |-> <<>>]
    /\ budget = [i \in Ids |-> 0]
    /\ gen = [i \in Ids |-> "never"]
    /\ web = [req |-> [c \in Clients |-> NoReq], served |-> [i \in Ids |-> 0]]

NextMem ==
    \/ \E c \in Clients : MSave(c)
    \/ \E c \in Clients : MGet(c)
    \/ \E c \in Clients : Use(c)
    \/ \E c \in Clients : MDelete(c)
    \/ \E c \in Clients : MIncCheck(c)
    \/ \E c \in Clients : MIncr(c)
    \/ Cleanup

\* the store's shutdown, and the sweeper's exit
NextClose ==
    \/ \E c \in Clients : MCloseCall(c)
    \/ \E c \in Clients : MClose(c)
    \/ SweeperStop

NextRedis ==
    \/ \E c \in Clients : RSave(c)
    \/ \E c \in Clients : RGet(c)
    \/ \E c \in Clients : RGetDel(c)
    \/ \E c \in Clients : RDelete(c)
    \/ \E c \in Clients : RIncWatch(c)
    \/ \E c \in Clients : RIncRead(c)
    \/ \E c \in Clients : RIncCheck(c)
    \/ \E c \in Clients : RIncExec(c)

Next == NextMem \/ NextRedis \/ Tick

Spec == Init /\ [][Next]_vars

\* the ticker keeps firing and s.mu.Lock() in cleanup is granted whenever
\* the mutex keeps coming free (sync.RWMutex hands the lock to a waiting
\* writer); IncrementViews, once it holds the lock, runs to its deferred
\* Unlock
Fairness ==
    /\ SF_vars(Cleanup)
    /\ \A c \in Clients : WF_vars(MIncr(c))

FairSpec == Init /\ [][Next]_vars /\ Fairness

\* MemoryStore with its shutdown. Once ctx.Done() is closed the select in
\* cleanupLoop finds that case ready at every turn and picks among the
\* ready cases at random, so it picks it in the end; Close and
\* IncrementViews run on to their returns
NextShut == NextMem \/ NextClose \/ Tick

ShutFairness ==
    /\ WF_vars(SweeperStop)
    /\ \A c \in Clients : WF_vars(MIncr(c)) /\ SF_vars(MClose(c))

InitShut == Init /\ backend = "memory"

ShutSpec == InitShut /\ [][NextShut]_vars /\ ShutFairness

\* the HTTP service over MemoryStore (initStore: NewMemoryStore), its
\* requests served by concurrent goroutines
NextHttp ==
    \/ \E c \in Clients : CreateSecret(c)
    \/ \E c \in Clients : RevealGet(c)
    \/ \E c \in Clients : RevealIncCheck(c)
    \/ \E c \in Clients : RevealIncr(c)
    \/ \E c \in Clients : RevealSend(c)
    \/ Cleanup
    \/ Tick

HttpSpec == InitShut /\ [][NextHttp]_vars

\* ------------------------------------------------------------- claims

Mem == backend = "memory"
IncFailed(i) == last.op = "inc" /\ last.id = i /\ last.kind # "ok"

\* C1: MemoryStore, a record saved once with currentViews = 0 and
\* maxViews = N and neither deleted, re-saved nor expired: the successful
\* IncrementViews calls return 1, 2, ... each once and never more than N,
\* and a call fails only once N calls have succeeded, so any K >= N calls
\* hold exactly N successes
C1_ExactlyNViews ==
    Mem => \A i \in Ids :
        gen[i] = "fresh" =>
            /\ Len(succ[i]) <= budget[i]
            /\ \A k \in 1..Len(succ[i]) : succ[i][k] = k
            /\ IncFailed(i) => Len(succ[i]) = budget[i]

\* C1 witness: with N = 2, a third call has failed after the counts 1, 2
C1_Witness ==
    /\ Mem /\ gen[MainId] = "fresh" /\ budget[MainId] = 2
    /\ succ[MainId] = <<1, 2>> /\ IncFailed(MainId)

\* C3 as claimed: an IncrementViews that finds the budget used up by N
\* successful calls returns MaxViewsReached
C3_Claimed ==
    (Mem /\ last.op = "inc" /\ last.burned) => last.kind = "MaxViews"

\* C3 as amended: an IncrementViews that finds the budget used up by N
\* successful calls, with no Save of the id since, returns NotFound
C3_NotFoundAfterBudget ==
    (Mem /\ last.op = "inc" /\ last.burned) => last.kind = "NotFound"

\* C3 witness: the call after the MaxN successful ones returned NotFound
C3_Witness ==
    /\ Mem /\ last.op = "inc" /\ last.burned /\ last.kind = "NotFound"
    /\ Len(succ[last.id]) = MaxN

\* C4: MemoryStore, after the Nth successful IncrementViews and until a new
\* Save of the id, the id is absent from the map, Get returns NotFound and
\* no IncrementViews succeeds
C4_GoneAfterLastView ==
    Mem =>
        /\ \A i \in Ids : Burned(i) => ~Stored(i)
        /\ (last.op = "get" /\ last.burned) => last.kind = "NotFound"
        /\ (last.op = "inc" /\ last.burned) => last.kind # "ok"

\* C4 witness: a Get after the last view answered NotFound
C4_Witness ==
    /\ Mem /\ Burned(MainId) /\ budget[MainId] = MaxN
    /\ last.op = "get" /\ last.id = MainId /\ last.burned /\ last.kind = "NotFound"

\* C5 as claimed: MemoryStore.Save of a secret whose deadline is already
\* past returns Expired and does not store it
C5_Claimed ==
    (Mem /\ last.op = "save" /\ last.exp < last.t) =>
        (last.kind = "Expired" /\ ~Stored(last.id))

\* C7 as claimed: MemoryStore, no Get returns a record and no
\* IncrementViews succeeds at a time now >= expiresAt
C7_Claimed ==
    (Mem /\ last.op \in {"get", "inc"} /\ last.kind = "ok") => last.t < last.exp

\* the outcome the contract gives Get
ContractOutcome(f, t) ==
    IF ~f.found THEN "NotFound"
    ELSE IF t >= f.exp THEN "Expired"
    ELSE IF f.cv >= f.max THEN "MaxViews"
    ELSE "ok"

\* C8 as claimed: MemoryStore.Get answers NotFound when nothing is stored,
\* Expired when now >= expiresAt, MaxViewsReached when not expired and
\* currentViews >= maxViews, and the record otherwise
C8_Claimed ==
    (Mem /\ last.op = "get") => last.kind = ContractOutcome(last, last.t)

\* C9 as claimed: the currentViews a caller reads from what Get returned is
\* the one Get saw, whatever IncrementViews ran since
C9_Claimed ==
    (Mem /\ last.op = "use") => last.val = last.cv

Red == backend = "redis"

\* C2 as claimed: RedisStore, a record saved once with currentViews = 0 and
\* maxViews = N and not deleted by a caller: no two IncrementViews calls
\* return the same count, and at most N succeed
C2_Claimed ==
    Red => \A i \in Keys :
        gen[i] = "fresh" =>
            /\ Len(succ[i]) <= budget[i]
            /\ \A j, k \in 1..Len(succ[i]) : j # k => succ[i][j] # succ[i][k]

\* C6: RedisStore.Save of a secret with expiresAt - now <= 0 returns
\* Expired and writes nothing, so a Get of an id that only such Saves have
\* named finds no secret
C6_SaveRejectsExpired ==
    [][/\ (Red /\ last'.op = "save" /\ last'.exp <= last'.t) =>
            (last'.kind = "Expired" /\ kv' = kv)
       /\ (Red /\ last'.op = "get" /\ gen[last'.id] = "never") =>
            last'.kind = "NotFound"]_vars

\* C6 witness: a Save at the boundary expiresAt = now was refused, and the
\* record stored before it is still there
C6_Witness ==
    /\ Red /\ last.op = "save" /\ last.exp = last.t /\ last.kind = "Expired"
    /\ Live(MainId)

\* the records a backend holds
Table ==
    IF Mem THEN [i \in Ids |-> IF Stored(i) THEN At(i) ELSE Freed] ELSE kv

\* C10: a Get that returns a live record leaves the store as it was, in
\* both backends; MemoryStore.Get leaves it so whatever it answers
C10_GetReadsOnly ==
    [][(last'.op = "get" /\ (Mem \/ last'.kind = "ok")) => Table' = Table]_vars

\* C10 witness: MemoryStore.Get answered Expired and the record is still in
\* the map
C10_Witness ==
    Mem /\ last.op = "get" /\ last.kind = "Expired" /\ Stored(last.id)

\* the fields the round trip keeps: the times compare as instants
\* (time.Time.Equal), the monotonic clock reading aside
SameSecret(r, s) ==
    /\ r.id = s.id /\ r.data = s.data /\ r.maxViews = s.maxViews
    /\ r.expiresAt.wall = s.expiresAt.wall
    /\ r.createdAt.wall = s.createdAt.wall

\* C11: in both backends, Save(s) of a secret with currentViews = 0,
\* maxViews >= 1 and the deadline ahead, followed at once by a Get(s.id)
\* called after it, returns a record with the id, ciphertext, maxViews,
\* expiresAt and createdAt of s
C11_RoundTrip ==
    [][(/\ last.op = "save" /\ last.kind = "ok"
        /\ last.rec.currentViews = 0 /\ last.rec.maxViews >= 1
        /\ last.rec.expiresAt.wall > last.t
        /\ \A c \in Clients : pc[c] # "getdel"
        /\ last'.op = "get" /\ last'.id = last.id)
       => (last'.kind = "ok" /\ SameSecret(last'.rec, last.rec))]_vars

\* C11 witness: RedisStore.Get handed back the record of an id saved once,
\* with no view used and no removal since
C11_Witness ==
    /\ Red /\ last.op = "get" /\ last.kind = "ok"
    /\ gen[last.id] = "fresh" /\ succ[last.id] = <<>>
    /\ last.rec.maxViews = MaxN /\ last.rec.currentViews = 0

\* C12 as claimed: an id that has left Active - here by the
\* IncrementViews that used its last view - is never Active again,
\* whatever is called on it afterwards, Save included: a Get called after
\* a Save of such an id returns no record
C12_Claimed ==
    [][(/\ last.op = "save" /\ last.kind = "ok" /\ last.burned
        /\ \A c \in Clients : pc[c] # "getdel"
        /\ last'.op = "get" /\ last'.id = last.id)
       => last'.kind # "ok"]_vars

\* C13: MemoryStore, every record in the map has
\* 0 <= currentViews <= maxViews (every secret passed to Save has)
C13_ViewsWithinBudget ==
    Mem => \A i \in Ids :
        Stored(i) => (0 <= At(i).currentViews /\ At(i).currentViews <= At(i).maxViews)

\* C13 witness: a record in the map after one of its two views was used
C13_Witness ==
    /\ Mem /\ Stored(MainId) /\ succ[MainId] = <<1>>
    /\ At(MainId).currentViews = 1 /\ At(MainId).maxViews = 2

\* the record a backend holds under the id, NoRec when none
Rec(i) ==
    IF Mem THEN (IF Stored(i) THEN At(i) ELSE NoRec)
    ELSE IF i \in Keys /\ Live(i) THEN Decode(kv[i].blob)
    ELSE NoRec

\* the step is a Save that stored a secret under the id
Creates(i) == last'.op = "save" /\ last'.id = i /\ last'.kind = "ok"

C15_DeleteIdempotent ==
    [][\A i \in Ids :
        (last'.op = "delete" /\ last'.id = i) =>
            /\ last'.kind = "ok"
            /\ Rec(i)' = NoRec
            /\ \A j \in Ids \ {i} : Rec(j)' = Rec(j)
            /\ (last.op = "delete" /\ last.id = i) => Table' = Table]_vars

\* C15 witness: MemoryStore.Delete of an absent id returned no error and
\* another id's record is in the map
C15_Witness ==
    /\ Mem /\ last.op = "delete" /\ last.kind = "ok" /\ ~last.found
    /\ \E j \in Ids \ {last.id} : Stored(j)

\* C16 as claimed: a RedisStore.IncrementViews that returns the count v
\* has committed a rewrite of the key with currentViews = v when
\* v < maxViews, and a deletion of the key when v = maxViews: on its
\* return the key holds v, or is gone
C16_Claimed ==
    [][\A i \in Keys :
        (Red /\ last'.op = "inc" /\ last'.id = i /\ last'.kind = "ok") =>
            IF last'.val < last'.max
            THEN Rec(i)' # NoRec /\ Rec(i)'.currentViews = last'.val
            ELSE Rec(i)' = NoRec]_vars

\* the step ends an attempt of c's IncrementViews with the commit rejected
Rejected(c) ==
    /\ pc[c] = "exec" /\ watch[c] = "dirty"
    /\ Queued(Incremented(rloc[c].secret), rloc[c].ttl) # "none"
    /\ pc'[c] # "exec"

\* C17: RedisStore.IncrementViews makes at most 3 attempts; it goes round
\* again only after a commit rejected because the watched key changed, it
\* returns WriteConflict exactly when the third attempt was rejected too,
\* and a rejected attempt writes nothing
C17_ThreeAttempts ==
    [][\A c \in Clients :
        /\ tries'[c] < 3
        /\ tries'[c] > tries[c] => (Rejected(c) /\ tries[c] < 2)
        /\ Rejected(c) => kv' = kv
        /\ (Rejected(c) /\ tries[c] = 2) =>
              (last'.op = "inc" /\ last'.kind = "TxFailed" /\ pc'[c] = "idle")
        /\ (pc[c] = "exec" /\ pc'[c] = "idle" /\ last'.kind = "TxFailed") =>
              (Rejected(c) /\ tries[c] = 2)]_vars

\* C17 witness: a call returned WriteConflict
C17_Witness ==
    Red /\ last.op = "inc" /\ last.kind = "TxFailed"

\* C18 as claimed: a write or a deletion of the key by RedisStore.Get or
\* RedisStore.IncrementViews, the delete after Expired or MaxViewsReached
\* included, takes effect only on the key as the call read it
C18_Claimed ==
    [][\A c \in Clients :
        (/\ Red /\ pc[c] \in {"getdel", "check", "exec"} /\ pc'[c] # pc[c]
         /\ kv'[arg[c]] # kv[arg[c]])
        => Decode(kv[arg[c]].blob) = rloc[c].secret]_vars

\* a record is live iff currentViews < maxViews and now < expiresAt
IsLive(s) == s.currentViews < s.maxViews /\ now < s.expiresAt.wall
Entries == Cardinality({i \in Ids : Stored(i)})
NonLive == Cardinality({i \in Ids : Stored(i) /\ ~IsLive(At(i))})

\* C19 as claimed: one run of the MemoryStore sweep removes every record
\* that is not live at the tick and leaves every other record present
\* and unchanged, so the table shrinks by the number of non-live records
C19_Claimed ==
    [][last'.op = "cleanup" =>
        /\ \A i \in Ids :
             (Stored(i) /\ ~IsLive(At(i))) => Rec(i)' = NoRec
        /\ \A i \in Ids :
             (Stored(i) /\ IsLive(At(i))) => Rec(i)' = Rec(i)
        /\ \A i \in Ids : ~Stored(i) => Rec(i)' = NoRec
        /\ Entries' = Entries - NonLive]_vars

\* C20: MemoryStore, Close never called and the sweeper ticking fairly:
\* a record whose deadline has passed is eventually no longer in the
\* table, whether or not any caller touches its id
\* (a deadline never moves and time never goes back, so the table holding
\* no expired record under the id means that record has left it)
Overdue(i) == Mem /\ Stored(i) /\ Expired(At(i))
C20_EventuallySwept == \A i \in Ids : Overdue(i) ~> ~Overdue(i)
C20_Witness == /\ Mem /\ last.op = "cleanup" /\ MainId \in last.swept
               /\ succ[MainId] = <<>> /\ \A c \in Clients : pc[c] = "idle"

\* C21: MemoryStore is deadlock-free: the lock is taken only when it is
\* free, whoever holds it is inside IncrementViews and nowhere else, a
\* caller inside IncrementViews always reaches its return with the lock
\* given back, and the lock keeps coming free for whoever waits
C21_DeadlockFree ==
    /\ [](\A c \in Clients : (mu = c) <=> (Mem /\ pc[c] = "incr"))
    /\ [][\A c \in Clients : (mu' = c /\ mu # c) => mu = None]_vars
    /\ \A c \in Clients : (Mem /\ pc[c] = "incr") ~> (pc[c] = "idle" /\ mu = None)
    /\ []<>(mu = None)
C21_Witness == /\ Mem /\ mu = "c2" /\ pc["c2"] = "incr" /\ pc["c1"] = "got"
               /\ arg["c1"] = arg["c2"]

\* C22 as claimed: once Close has returned the sweeper runs at most one
\* more sweep, for a tick that was pending already
C22_Claimed == (last.op = "cleanup" /\ released) => last.late <= 1

\* C22: once Close has returned the sweeper stops in the end; a sweep that
\* runs on the released map leaves everything as it is; and a Close of
\* the released store returns no error and changes nothing
Shut == <<heap, secrets, released, mu, cancelled, spc>>
C22_CloseStopsSweeper ==
    /\ released ~> (spc = "stopped")
    /\ [](released => cancelled)
    /\ [][(released /\ last'.op = "cleanup") => Shut' = Shut]_vars
    /\ [][(released /\ last'.op = "close") => (last'.kind = "ok" /\ Shut' = Shut)]_vars
    /\ [][spc = "stopped" => (spc' = "stopped" /\ last'.op # "cleanup")]_vars
C22_Witness == /\ released /\ last.op = "close" /\ last.again /\ spc = "stopped"

\* C23: the reveal flow over MemoryStore: a request goes on to send the
\* content only with the count its own IncrementViews returned, at most
\* maxViews requests for a secret are answered 200, and views_remaining
\* of a 200 answer is maxViews less that count, never below 0
InSeq(n, q) == \E k \in 1..Len(q) : q[k] = n
C23_RevealWithinBudget ==
    /\ \A i \in Ids : web.served[i] <= budget[i] /\ web.served[i] <= Len(succ[i])
    /\ \A c \in Clients :
         (pc[c] = "send" /\ Sends(web.req[c].err)) =>
            (web.req[c].count >= 1 /\ InSeq(web.req[c].count, succ[arg[c]]))
    /\ (last.op = "reveal" /\ last.status = 200) =>
         /\ InSeq(last.val, succ[last.id])
         /\ last.remaining = budget[last.id] - last.val
         /\ last.remaining >= 0
C23_Witness == /\ last.op = "reveal" /\ last.at = "inc" /\ last.kind = "NotFound"
               /\ budget[last.id] = MaxN /\ web.served[last.id] = MaxN

\* C24: a failed access consumes no view: a reveal request whose
\* passphrase is missing or is not the secret's never reaches
\* IncrementViews and leaves the table as it was, and an IncrementViews
\* that returns an error returns 0, raises no record's currentViews, and
\* changes the table only by removing its target after Expired or
\* MaxViewsReached
C24_FailedAccessFree ==
    /\ [](\A c \in Clients :
            pc[c] \in {"reveal", "revealing", "send"} =>
                web.req[c].pass = heap[held[c].addr].passphrase)
    /\ [][(last'.op = "reveal" /\ last'.kind \in {"BadRequest", "Forbidden"}) =>
              (Table' = Table /\ succ' = succ /\ mu' = mu)]_vars
    /\ [][\A i \in Ids :
            (last'.op = "inc" /\ last'.id = i /\ last'.kind # "ok") =>
                /\ last'.val = 0
                /\ succ' = succ
                /\ \A j \in Ids \ {i} : Rec(j)' = Rec(j)
                /\ IF last'.kind = "NotFound" THEN Rec(i) = NoRec /\ Table' = Table
                   ELSE Rec(i) # NoRec /\ Rec(i)' = NoRec]_vars
C24_Witness == /\ last.op = "reveal" /\ last.kind = "Forbidden"
               /\ Stored(last.id) /\ At(last.id).currentViews = 1
               /\ \E c \in Clients : pc[c] = "reveal" /\ arg[c] = last.id

====
